---- MODULE Spec2Model ----
\* Model of src-tauri/src/lib.rs: the local API server supervisor embedded in
\* the Tauri application lifecycle (setup hook, run-loop callback).
EXTENDS Integers, Sequences, FiniteSets, TLC

\* ---------------------------------------------------------------- bounds
\* Number of run-loop events the event loop delivers in one behaviour.
MaxEvents == 3
\* Number of direct stop_local_server invocations in the terminator harness.
MaxCalls == 2

\* ---------------------------------------------------------------- domains
Builds == {"debug", "release"}
\* Threads that may run the run-loop callback / the terminator.
Threads == {"main", "aux"}
\* Run-loop events: the two exit events and any other event (Ready, ...).
RunEvents == {"ExitRequested", "Exit", "Other"}
\* Texts of the errors the environment can report.
ResolveErrors == {"unknown path", "resource not found"}
SpawnErrors == {"No such file or directory", "Permission denied"}
PluginErrors == {"plugin already initialized"}
OsResults == {"Ok", "Err"}

None == [tag |-> "None"]
Some(c) == [tag |-> "Some", val |-> c]

VARIABLES
  build,          \* cfg(debug_assertions): "debug" or "release", fixed per binary
  pc,             \* position of run() on the main thread
  hpc,            \* per thread: position inside the run-loop callback
  hev,            \* per thread: the event (or call) being handled
  server_script,  \* spawn_local_server: the resolved path (None before)
  child,          \* setup closure: the local `child` (None before the spawn)
  osError,        \* the last error text the environment reported (None if none)
  setupResult,    \* result of the setup closure (None while it has not returned)
  logger,         \* log level installed by tauri_plugin_log ("off" if none)
  managed,        \* app state of type LocalServerState: sequence, at most one
  children,       \* OS processes spawned by this program, by handle 1..Len
  spawnAttempts,  \* number of Command::spawn calls made
  killResults,    \* results of the Child::kill calls made, in order
  waitResults,    \* results of the Child::wait calls made, in order
  lockAcquires,   \* number of successful Mutex::lock calls
  stopCalls,      \* number of stop_local_server invocations started
  stopReturns,    \* number of stop_local_server invocations returned
  events          \* number of run-loop events delivered

vars == <<build, pc, hpc, hev, server_script, child, osError, setupResult,
          logger, managed, children, spawnAttempts, killResults, waitResults,
          lockAcquires, stopCalls, stopReturns, events>>

\* Everything the program itself owns or did (not the framework's position).
progState == <<managed, children, logger, spawnAttempts, killResults,
               waitResults, lockAcquires>>

\* ---------------------------------------------------------------- data
\* struct LocalServerState(Mutex<Option<Child>>): the slot plus the mutex
\* (holder of the guard, poison flag).
LocalServerState(slot) ==
  [slot |-> slot, holder |-> "none", poisoned |-> FALSE]

\* std::process::Child as the OS sees it.
NewChild(script) ==
  [program |-> "node", args |-> <<script>>, state |-> "running",
   killSent |-> FALSE]

\* Variant: the resolution error text is left out of the message.
ResolveErrorMessage_NoCause(error) ==
  <<"failed to resolve bundled server.mjs">>

\* format!("failed to resolve bundled server.mjs: {error}")
ResolveErrorMessage(error) ==
  <<"failed to resolve bundled server.mjs: ", error>>

\* Variant: the spawn error text is left out of the message.
SpawnErrorMessage_NoCause(error) ==
  <<"failed to spawn local API server">>

\* format!("failed to spawn local API server: {error}")
SpawnErrorMessage(error) ==
  <<"failed to spawn local API server: ", error>>

\* std::io::Error::other(error)
IoErrorOther(error) == [kind |-> "Other", error |-> error]

Ok(v) == [tag |-> "Ok", val |-> v]
Err(e) == [tag |-> "Err", err |-> e]

\* app.try_state::<LocalServerState>()
try_state == IF Len(managed) = 0 THEN None ELSE Some(1)

\* app.manage(state): installs the state unless one of that type exists.
manage(state) == IF Len(managed) = 0 THEN <<state>> ELSE managed

\* ---------------------------------------------------------------- Init
InitCommon ==
  /\ hpc = [t \in Threads |-> "idle"]
  /\ hev = [t \in Threads |-> "none"]
  /\ server_script = None
  /\ child = None
  /\ osError = None
  /\ logger = "off"
  /\ spawnAttempts = 0
  /\ killResults = <<>>
  /\ waitResults = <<>>
  /\ lockAcquires = 0
  /\ stopCalls = 0
  /\ stopReturns = 0
  /\ events = 0

Init ==
  /\ build \in Builds
  /\ pc = "start"
  /\ setupResult = None
  /\ managed = <<>>
  /\ children = <<>>
  /\ InitCommon

\* ---------------------------------------------------------------- startup
\* builder.build(generate_context!()).expect(...): the framework builds the
\* application and invokes the setup closure once; a framework failure
\* panics in expect.
BuilderBuild ==
  /\ pc = "start"
  /\ \E ok \in BOOLEAN : pc' = IF ok THEN "setup" ELSE "aborted"
  /\ UNCHANGED <<build, osError, hpc, hev, server_script, child, setupResult, logger,
                 managed, children, spawnAttempts, killResults, waitResults,
                 lockAcquires, stopCalls, stopReturns, events>>

\* #[cfg(debug_assertions)] app.handle().plugin(log builder at Info)?
SetupPluginLog ==
  /\ pc = "setup"
  /\ build = "debug"
  /\ \/ /\ logger' = "info"
        /\ setupResult' = Ok("unit")
        /\ UNCHANGED osError
     \/ /\ \E e \in PluginErrors :
             /\ osError' = Some(e)
             /\ setupResult' = Err(e)
        /\ UNCHANGED logger
  /\ pc' = "setup_ret"
  /\ UNCHANGED <<build, hpc, hev, server_script, child, managed, children,
                 spawnAttempts, killResults, waitResults, lockAcquires,
                 stopCalls, stopReturns, events>>

\* Variant: the launcher is not confined to release builds.
spawn_local_server_resolve_AnyBuild ==
  /\ pc = "setup"
  /\ \/ /\ server_script' = Some("resources/server.mjs")
        /\ pc' = "resolved"
        /\ UNCHANGED <<setupResult, osError>>
     \/ /\ \E e \in ResolveErrors :
             /\ osError' = Some(e)
             /\ setupResult' = Err(IoErrorOther(ResolveErrorMessage(e)))
        /\ pc' = "setup_ret"
        /\ UNCHANGED server_script
  /\ UNCHANGED <<build, hpc, hev, child, logger, managed, children,
                 spawnAttempts, killResults, waitResults, lockAcquires,
                 stopCalls, stopReturns, events>>

\* spawn_local_server, first half: app.path().resolve("server.mjs", Resource)
\* .map_err(...)?  An error returns from spawn_local_server and, through
\* map_err(io::Error::other) and `?`, from the setup closure.
spawn_local_server_resolve ==
  /\ pc = "setup"
  /\ build = "release"
  /\ \/ /\ server_script' = Some("resources/server.mjs")
        /\ pc' = "resolved"
        /\ UNCHANGED <<setupResult, osError>>
     \/ /\ \E e \in ResolveErrors :
             /\ osError' = Some(e)
             /\ setupResult' = Err(IoErrorOther(ResolveErrorMessage(e)))
        /\ pc' = "setup_ret"
        /\ UNCHANGED server_script
  /\ UNCHANGED <<build, hpc, hev, child, logger, managed, children,
                 spawnAttempts, killResults, waitResults, lockAcquires,
                 stopCalls, stopReturns, events>>

\* Variant: the launcher installs the state itself, right after the spawn.
spawn_local_server_spawn_Manage ==
  /\ pc = "resolved"
  /\ spawnAttempts' = spawnAttempts + 1
  /\ \/ /\ children' = Append(children, NewChild(server_script.val))
        /\ child' = Some(Len(children) + 1)
        /\ managed' = manage(LocalServerState(Some(Len(children) + 1)))
        /\ pc' = "spawned"
        /\ UNCHANGED <<setupResult, osError>>
     \/ /\ \E e \in SpawnErrors :
             /\ osError' = Some(e)
             /\ setupResult' = Err(IoErrorOther(SpawnErrorMessage(e)))
        /\ pc' = "setup_ret"
        /\ UNCHANGED <<children, child, managed>>
  /\ UNCHANGED <<build, hpc, hev, server_script, logger,
                 killResults, waitResults, lockAcquires, stopCalls, stopReturns,
                 events>>

\* Variant: a failed spawn is tried again.
spawn_local_server_spawn_Retry ==
  /\ pc = "resolved"
  /\ spawnAttempts' = spawnAttempts + 1
  /\ \/ /\ children' = Append(children, NewChild(server_script.val))
        /\ child' = Some(Len(children) + 1)
        /\ pc' = "spawned"
        /\ UNCHANGED <<setupResult, osError>>
     \/ /\ \E e \in SpawnErrors : osError' = Some(e)
        /\ pc' = "resolved"
        /\ UNCHANGED <<children, child, setupResult>>
  /\ UNCHANGED <<build, hpc, hev, server_script, logger, managed,
                 killResults, waitResults, lockAcquires, stopCalls, stopReturns,
                 events>>

\* Variant: a failed spawn is swallowed and the setup closure returns Ok.
spawn_local_server_spawn_Swallow ==
  /\ pc = "resolved"
  /\ spawnAttempts' = spawnAttempts + 1
  /\ \/ /\ children' = Append(children, NewChild(server_script.val))
        /\ child' = Some(Len(children) + 1)
        /\ pc' = "spawned"
        /\ UNCHANGED <<setupResult, osError>>
     \/ /\ \E e \in SpawnErrors : osError' = Some(e)
        /\ setupResult' = Ok("unit")
        /\ pc' = "setup_ret"
        /\ UNCHANGED <<children, child>>
  /\ UNCHANGED <<build, hpc, hev, server_script, logger, managed,
                 killResults, waitResults, lockAcquires, stopCalls, stopReturns,
                 events>>

\* spawn_local_server, second half: Command::new("node").arg(server_script)
\* ... .spawn().map_err(...)
spawn_local_server_spawn ==
  /\ pc = "resolved"
  /\ spawnAttempts' = spawnAttempts + 1
  /\ \/ /\ children' = Append(children, NewChild(server_script.val))
        /\ child' = Some(Len(children) + 1)
        /\ pc' = "spawned"
        /\ UNCHANGED <<setupResult, osError>>
     \/ /\ \E e \in SpawnErrors :
             /\ osError' = Some(e)
             /\ setupResult' = Err(IoErrorOther(SpawnErrorMessage(e)))
        /\ pc' = "setup_ret"
        /\ UNCHANGED <<children, child>>
  /\ UNCHANGED <<build, hpc, hev, server_script, logger, managed,
                 killResults, waitResults, lockAcquires, stopCalls, stopReturns,
                 events>>

\* Variant: the state is installed with an empty slot.
SetupManage_EmptySlot ==
  /\ pc = "spawned"
  /\ managed' = manage(LocalServerState(None))
  /\ setupResult' = Ok("unit")
  /\ pc' = "setup_ret"
  /\ UNCHANGED <<build, osError, hpc, hev, server_script, child, logger,
                 children, spawnAttempts, killResults, waitResults,
                 lockAcquires, stopCalls, stopReturns, events>>

\* app.manage(LocalServerState(Mutex::new(Some(child)))); Ok(())
SetupManage ==
  /\ pc = "spawned"
  /\ managed' = manage(LocalServerState(child))
  /\ setupResult' = Ok("unit")
  /\ pc' = "setup_ret"
  /\ UNCHANGED <<build, osError, hpc, hev, server_script, child, logger, children,
                 spawnAttempts, killResults, waitResults, lockAcquires,
                 stopCalls, stopReturns, events>>

\* The setup closure has returned: on Ok the application goes on to serve
\* run-loop events, on Err the framework fails and run() panics.
SetupReturn ==
  /\ pc = "setup_ret"
  /\ pc' = IF setupResult.tag = "Ok" THEN "running" ELSE "aborted"
  /\ UNCHANGED <<build, osError, hpc, hev, server_script, child, setupResult, logger,
                 managed, children, spawnAttempts, killResults, waitResults,
                 lockAcquires, stopCalls, stopReturns, events>>

\* ---------------------------------------------------------------- run loop
\* Variant: the terminator is called for every run-loop event.
RunCallback_AnyEvent(e) ==
  /\ pc = "running"
  /\ hpc["main"] = "idle"
  /\ events < MaxEvents
  /\ events' = events + 1
  /\ hev' = [hev EXCEPT !["main"] = e]
  /\ IF build = "release"
       THEN /\ hpc' = [hpc EXCEPT !["main"] = "try_state"]
            /\ stopCalls' = stopCalls + 1
       ELSE /\ hpc' = [hpc EXCEPT !["main"] = "ret"]
            /\ UNCHANGED stopCalls
  /\ UNCHANGED <<build, osError, pc, server_script, child, setupResult, logger,
                 managed, children, spawnAttempts, killResults, waitResults,
                 lockAcquires, stopReturns>>

\* app.run(|_app, event| match event { ExitRequested | Exit => { release:
\* stop_local_server(_app) }, _ => {} }): the event loop delivers one event
\* to the callback on the main thread.
RunCallback(e) ==
  /\ pc = "running"
  /\ hpc["main"] = "idle"
  /\ events < MaxEvents
  /\ events' = events + 1
  /\ hev' = [hev EXCEPT !["main"] = e]
  /\ IF e \in {"ExitRequested", "Exit"} /\ build = "release"
       THEN /\ hpc' = [hpc EXCEPT !["main"] = "try_state"]
            /\ stopCalls' = stopCalls + 1
       ELSE /\ hpc' = [hpc EXCEPT !["main"] = "ret"]
            /\ UNCHANGED stopCalls
  /\ UNCHANGED <<build, osError, pc, server_script, child, setupResult, logger,
                 managed, children, spawnAttempts, killResults, waitResults,
                 lockAcquires, stopReturns>>

\* The callback returns to the event loop; after Exit the loop ends.
CallbackReturn(t) ==
  /\ hpc[t] = "ret"
  /\ hpc' = [hpc EXCEPT ![t] = "idle"]
  /\ pc' = IF hev[t] = "Exit" THEN "done" ELSE pc
  /\ UNCHANGED <<build, osError, hev, server_script, child, setupResult, logger,
                 managed, children, spawnAttempts, killResults, waitResults,
                 lockAcquires, stopCalls, stopReturns, events>>

\* ---------------------------------------------------------------- terminator
\* Variant: a missing state is installed (empty) instead of being skipped.
stop_local_server_try_state_Install(t) ==
  /\ hpc[t] = "try_state"
  /\ managed' = manage(LocalServerState(None))
  /\ hpc' = [hpc EXCEPT ![t] = "lock"]
  /\ UNCHANGED <<build, osError, pc, hev, server_script, child, setupResult,
                 logger, children, spawnAttempts, killResults, waitResults,
                 lockAcquires, stopCalls, stopReturns, events>>

\* if let Some(state) = app.try_state::<LocalServerState>() { ... }
stop_local_server_try_state(t) ==
  /\ hpc[t] = "try_state"
  /\ hpc' = [hpc EXCEPT ![t] = IF try_state = None THEN "stop_ret" ELSE "lock"]
  /\ UNCHANGED <<build, osError, pc, hev, server_script, child, setupResult, logger,
                 managed, children, spawnAttempts, killResults, waitResults,
                 lockAcquires, stopCalls, stopReturns, events>>

\* Variant: the guard is taken without waiting for its holder to release it.
stop_local_server_lock_NoExclusion(t) ==
  /\ hpc[t] = "lock"
  /\ hpc' = [hpc EXCEPT ![t] = "as_mut"]
  /\ managed' = [managed EXCEPT ![1].holder = t]
  /\ lockAcquires' = lockAcquires + 1
  /\ UNCHANGED <<build, osError, pc, hev, server_script, child, setupResult,
                 logger, children, spawnAttempts, killResults, waitResults,
                 stopCalls, stopReturns, events>>

\* Variant: a poisoned mutex is recovered (into_inner) and used.
stop_local_server_lock_Recover(t) ==
  /\ hpc[t] = "lock"
  /\ managed[1].holder = "none"
  /\ hpc' = [hpc EXCEPT ![t] = "as_mut"]
  /\ managed' = [managed EXCEPT ![1].holder = t]
  /\ lockAcquires' = lockAcquires + 1
  /\ UNCHANGED <<build, osError, pc, hev, server_script, child, setupResult,
                 logger, children, spawnAttempts, killResults, waitResults,
                 stopCalls, stopReturns, events>>

\* if let Ok(mut guard) = state.0.lock() { ... }: blocks while another
\* thread holds the guard; Err when the mutex is poisoned.
stop_local_server_lock(t) ==
  /\ hpc[t] = "lock"
  /\ managed[1].holder = "none"
  /\ IF managed[1].poisoned
       THEN /\ hpc' = [hpc EXCEPT ![t] = "stop_ret"]
            /\ UNCHANGED <<managed, lockAcquires>>
       ELSE /\ hpc' = [hpc EXCEPT ![t] = "as_mut"]
            /\ managed' = [managed EXCEPT ![1].holder = t]
            /\ lockAcquires' = lockAcquires + 1
  /\ UNCHANGED <<build, osError, pc, hev, server_script, child, setupResult, logger,
                 children, spawnAttempts, killResults, waitResults,
                 stopCalls, stopReturns, events>>

\* Variant: the stored child is neither killed nor waited on.
stop_local_server_as_mut_NoKill(t) ==
  /\ hpc[t] = "as_mut"
  /\ hpc' = [hpc EXCEPT ![t] = "clear"]
  /\ UNCHANGED <<build, osError, pc, hev, server_script, child, setupResult,
                 logger, managed, children, spawnAttempts, killResults,
                 waitResults, lockAcquires, stopCalls, stopReturns, events>>

\* if let Some(child) = guard.as_mut() { ... }
stop_local_server_as_mut(t) ==
  /\ hpc[t] = "as_mut"
  /\ hpc' = [hpc EXCEPT ![t] =
               IF managed[1].slot.tag = "Some" THEN "kill" ELSE "clear"]
  /\ UNCHANGED <<build, osError, pc, hev, server_script, child, setupResult, logger,
                 managed, children, spawnAttempts, killResults, waitResults,
                 lockAcquires, stopCalls, stopReturns, events>>

\* Variant: a signal the child may ignore is sent instead of a forceful kill.
stop_local_server_kill_Graceful(t) ==
  /\ hpc[t] = "kill"
  /\ \E r \in OsResults : killResults' = Append(killResults, r)
  /\ hpc' = [hpc EXCEPT ![t] = "wait"]
  /\ UNCHANGED <<build, osError, pc, hev, server_script, child, setupResult,
                 logger, managed, children, spawnAttempts, waitResults,
                 lockAcquires, stopCalls, stopReturns, events>>

\* let _ = child.kill();  Ok: the kill signal is on its way to the process;
\* Err: nothing was sent.  The result is discarded.
stop_local_server_kill(t) ==
  /\ hpc[t] = "kill"
  /\ \E r \in OsResults :
       /\ killResults' = Append(killResults, r)
       /\ children' = IF r = "Ok"
                        THEN [children EXCEPT ![managed[1].slot.val].killSent = TRUE]
                        ELSE children
  /\ hpc' = [hpc EXCEPT ![t] = "wait"]
  /\ UNCHANGED <<build, osError, pc, hev, server_script, child, setupResult, logger,
                 managed, spawnAttempts, waitResults, lockAcquires,
                 stopCalls, stopReturns, events>>

\* let _ = child.wait();  Ok: blocks until the process has exited and reaps
\* it; Err: returns without reaping.  The result is discarded.
stop_local_server_wait(t) ==
  /\ hpc[t] = "wait"
  /\ \E r \in OsResults :
       /\ waitResults' = Append(waitResults, r)
       /\ IF r = "Ok"
            THEN /\ children[managed[1].slot.val].state = "exited"
                 /\ children' = [children EXCEPT ![managed[1].slot.val].state = "reaped"]
            ELSE UNCHANGED children
  /\ hpc' = [hpc EXCEPT ![t] = "clear"]
  /\ UNCHANGED <<build, osError, pc, hev, server_script, child, setupResult, logger,
                 managed, spawnAttempts, killResults, lockAcquires,
                 stopCalls, stopReturns, events>>

\* Variant: the slot is cleared only when the last wait succeeded.
stop_local_server_clear_IfWaited(t) ==
  /\ hpc[t] = "clear"
  /\ managed' = IF waitResults # <<>> /\ waitResults[Len(waitResults)] = "Err"
                  THEN managed
                  ELSE [managed EXCEPT ![1].slot = None]
  /\ hpc' = [hpc EXCEPT ![t] = "unlock"]
  /\ UNCHANGED <<build, osError, pc, hev, server_script, child, setupResult,
                 logger, children, spawnAttempts, killResults, waitResults,
                 lockAcquires, stopCalls, stopReturns, events>>

\* *guard = None;
stop_local_server_clear(t) ==
  /\ hpc[t] = "clear"
  /\ managed' = [managed EXCEPT ![1].slot = None]
  /\ hpc' = [hpc EXCEPT ![t] = "unlock"]
  /\ UNCHANGED <<build, osError, pc, hev, server_script, child, setupResult, logger,
                 children, spawnAttempts, killResults, waitResults, lockAcquires,
                 stopCalls, stopReturns, events>>

\* Variant: the guard is leaked, the mutex stays locked.
stop_local_server_unlock_Leak(t) ==
  /\ hpc[t] = "unlock"
  /\ hpc' = [hpc EXCEPT ![t] = "stop_ret"]
  /\ UNCHANGED <<build, osError, pc, hev, server_script, child, setupResult,
                 logger, managed, children, spawnAttempts, killResults,
                 waitResults, lockAcquires, stopCalls, stopReturns, events>>

\* end of the `if let Ok(mut guard)` block: the guard is dropped.
stop_local_server_unlock(t) ==
  /\ hpc[t] = "unlock"
  /\ managed' = [managed EXCEPT ![1].holder = "none"]
  /\ hpc' = [hpc EXCEPT ![t] = "stop_ret"]
  /\ UNCHANGED <<build, osError, pc, hev, server_script, child, setupResult, logger,
                 children, spawnAttempts, killResults, waitResults, lockAcquires,
                 stopCalls, stopReturns, events>>

\* stop_local_server returns to the callback's match arm.
stop_local_server_return(t) ==
  /\ hpc[t] = "stop_ret"
  /\ stopReturns' = stopReturns + 1
  /\ hpc' = [hpc EXCEPT ![t] = "ret"]
  /\ UNCHANGED <<build, osError, pc, hev, server_script, child, setupResult, logger,
                 managed, children, spawnAttempts, killResults, waitResults,
                 lockAcquires, stopCalls, events>>

\* ---------------------------------------------------------------- the child
\* The node process exits by itself (crash, server error): it stays
\* unreaped until waited on.
ChildExits(c) ==
  /\ children[c].state = "running"
  /\ ~children[c].killSent
  /\ children' = [children EXCEPT ![c].state = "exited"]
  /\ UNCHANGED <<build, osError, pc, hpc, hev, server_script, child, setupResult,
                 logger, managed, spawnAttempts, killResults, waitResults,
                 lockAcquires, stopCalls, stopReturns, events>>

\* The kill signal sent by Child::kill terminates the process.
ChildKilled(c) ==
  /\ children[c].state = "running"
  /\ children[c].killSent
  /\ children' = [children EXCEPT ![c].state = "exited"]
  /\ UNCHANGED <<build, osError, pc, hpc, hev, server_script, child, setupResult,
                 logger, managed, spawnAttempts, killResults, waitResults,
                 lockAcquires, stopCalls, stopReturns, events>>

\* ---------------------------------------------------------------- Spec
Next ==
  \/ BuilderBuild
  \/ SetupPluginLog
  \/ spawn_local_server_resolve
  \/ spawn_local_server_spawn
  \/ SetupManage
  \/ SetupReturn
  \/ \E e \in RunEvents : RunCallback(e)
  \/ \E t \in Threads : CallbackReturn(t)
  \/ \E t \in Threads : stop_local_server_try_state(t)
  \/ \E t \in Threads : stop_local_server_lock(t)
  \/ \E t \in Threads : stop_local_server_as_mut(t)
  \/ \E t \in Threads : stop_local_server_kill(t)
  \/ \E t \in Threads : stop_local_server_wait(t)
  \/ \E t \in Threads : stop_local_server_clear(t)
  \/ \E t \in Threads : stop_local_server_unlock(t)
  \/ \E t \in Threads : stop_local_server_return(t)
  \/ \E c \in 1..Len(children) : ChildExits(c)
  \/ \E c \in 1..Len(children) : ChildKilled(c)

Spec == Init /\ [][Next]_vars

\* Scheduling of run(): a thread inside the callback keeps running (every
\* step of the terminator that is not blocked is eventually taken), a
\* process that was sent the kill signal dies, and wait returns Ok once the
\* process has exited.  Nothing obliges the child to exit by itself, the
\* environment to report an error, or the event loop to deliver an event.
WaitReturnsOk(t) ==
  stop_local_server_wait(t) /\ waitResults' = Append(waitResults, "Ok")

Fairness ==
  /\ \A t \in Threads :
       /\ WF_vars(stop_local_server_try_state(t))
       /\ WF_vars(stop_local_server_lock(t))
       /\ WF_vars(stop_local_server_as_mut(t))
       /\ WF_vars(stop_local_server_kill(t))
       /\ WF_vars(WaitReturnsOk(t))
       /\ WF_vars(stop_local_server_clear(t))
       /\ WF_vars(stop_local_server_unlock(t))
       /\ WF_vars(stop_local_server_return(t))
       /\ WF_vars(CallbackReturn(t))
  /\ WF_vars(\E c \in 1..Len(children) : ChildKilled(c))

SpecLive == Init /\ [][Next]_vars /\ Fairness

\* ---------------------------------------------------------------- harness
\* stop_local_server called directly on an application handle, in a release
\* build: either no LocalServerState was ever managed, or one was installed
\* by a successful setup (its child running or already exited by itself).
InitUnit ==
  /\ build = "release"
  /\ pc = "harness"
  /\ setupResult = None
  /\ \/ /\ managed = <<>>
        /\ children = <<>>
     \/ /\ managed = <<LocalServerState(Some(1))>>
        /\ \E st \in {"running", "exited"} :
             children = <<[NewChild("resources/server.mjs") EXCEPT !.state = st]>>
  /\ InitCommon

\* A thread calls stop_local_server(app).
HarnessCall(t) ==
  /\ pc = "harness"
  /\ hpc[t] = "idle"
  /\ stopCalls < MaxCalls
  /\ stopCalls' = stopCalls + 1
  /\ hpc' = [hpc EXCEPT ![t] = "try_state"]
  /\ hev' = [hev EXCEPT ![t] = "call"]
  /\ UNCHANGED <<build, osError, pc, server_script, child, setupResult, logger,
                 managed, children, spawnAttempts, killResults, waitResults,
                 lockAcquires, stopReturns, events>>

NextUnit ==
  \/ \E t \in Threads : HarnessCall(t)
  \/ \E t \in Threads : CallbackReturn(t)
  \/ \E t \in Threads : stop_local_server_try_state(t)
  \/ \E t \in Threads : stop_local_server_lock(t)
  \/ \E t \in Threads : stop_local_server_as_mut(t)
  \/ \E t \in Threads : stop_local_server_kill(t)
  \/ \E t \in Threads : stop_local_server_wait(t)
  \/ \E t \in Threads : stop_local_server_clear(t)
  \/ \E t \in Threads : stop_local_server_unlock(t)
  \/ \E t \in Threads : stop_local_server_return(t)
  \/ \E c \in 1..Len(children) : ChildExits(c)
  \/ \E c \in 1..Len(children) : ChildKilled(c)

SpecUnit == InitUnit /\ [][NextUnit]_vars

\* stop_local_server called directly on a handle whose LocalServerState
\* holds the child and whose mutex may have been poisoned (a thread
\* panicked while holding the guard), so that lock() can return Err.
InitLock ==
  /\ build = "release"
  /\ pc = "harness"
  /\ setupResult = None
  /\ \E p \in BOOLEAN :
       managed = <<[LocalServerState(Some(1)) EXCEPT !.poisoned = p]>>
  /\ \E st \in {"running", "exited"} :
       children = <<[NewChild("resources/server.mjs") EXCEPT !.state = st]>>
  /\ InitCommon

SpecLock == InitLock /\ [][NextUnit]_vars

\* ---------------------------------------------------------------- claims
Range(seq) == {seq[i] : i \in 1..Len(seq)}

\* A release build whose setup spawned and registered the child.
Registered == build = "release" /\ Len(managed) = 1 /\ Len(children) = 1

\* No thread is inside the callback.
AllIdle == \A t \in Threads : hpc[t] = "idle"

\* C1 as stated: once an exit handler has returned after a successful
\* startup, the child has been sent a kill, has been reaped, and the stored
\* handle is absent.
C1_Original ==
  (Registered /\ stopReturns >= 1) =>
    /\ children[1].killSent
    /\ children[1].state = "reaped"
    /\ managed[1].slot = None

\* C1 amended: once an exit handler has returned after a successful startup,
\* kill and wait have each been called exactly once on the child (their
\* results discarded), the kill signal was sent if kill returned Ok, the
\* child is reaped if wait returned Ok, and the stored handle is absent.
C1_Amended ==
  (Registered /\ stopReturns >= 1) =>
    /\ Len(killResults) = 1
    /\ Len(waitResults) = 1
    /\ (killResults[1] = "Ok" => children[1].killSent)
    /\ (waitResults[1] = "Ok" => children[1].state = "reaped")
    /\ managed[1].slot = None

\* The exit event was fully handled and the child was killed and reaped.
C1_Witness ==
  /\ Registered
  /\ pc = "done"
  /\ killResults = <<"Ok">>
  /\ waitResults = <<"Ok">>
  /\ children[1].state = "reaped"
  /\ managed[1].slot = None

\* C2: the terminator is idempotent.  Once one invocation has returned, the
\* stored handle is absent; no step of a later invocation issues a kill or a
\* wait or changes the slot or the child; and whenever the later invocation
\* has returned the managed state is what the first one left (slot None,
\* mutex free and not poisoned).
C2_Idempotent ==
  [][stopReturns >= 1 =>
       /\ Len(managed) = 1 => managed[1].slot = None
       /\ hpc' # hpc =>
            /\ killResults' = killResults
            /\ waitResults' = waitResults
            /\ children' = children
            /\ Len(managed') = Len(managed)
            /\ Len(managed) = 1 => managed'[1].slot = managed[1].slot
       /\ (AllIdle /\ Len(managed) = 1) =>
            managed = <<LocalServerState(None)>>]_vars

\* ExitRequested then Exit were both handled by the terminator.
C2_Witness ==
  /\ Registered
  /\ stopReturns = 2
  /\ pc = "done"
  /\ Len(killResults) = 1
  /\ managed = <<LocalServerState(None)>>

\* C3: when resolving server.mjs fails, the setup result is an error whose
\* message includes the resolution error text, no spawn was attempted, and
\* no LocalServerState is ever managed.
C3_ResolveFailure ==
  (build = "release" /\ osError # None /\ server_script = None) =>
    /\ setupResult.tag = "Err"
    /\ osError.val \in Range(setupResult.err.error)
    /\ spawnAttempts = 0
    /\ children = <<>>
    /\ child = None
    /\ managed = <<>>
    /\ pc \in {"setup_ret", "aborted"}

\* Resolution failed and startup has ended.
C3_Witness ==
  /\ build = "release"
  /\ osError \in {Some(e) : e \in ResolveErrors}
  /\ server_script = None
  /\ pc = "aborted"

\* C4: when the path resolved and creating the subprocess fails, the setup
\* result is an error whose message includes the spawn error text, no child
\* exists, and no LocalServerState is ever managed.
C4_SpawnFailure ==
  (build = "release" /\ osError # None /\ server_script # None) =>
    /\ setupResult.tag = "Err"
    /\ osError.val \in Range(setupResult.err.error)
    /\ spawnAttempts = 1
    /\ children = <<>>
    /\ child = None
    /\ managed = <<>>
    /\ pc \in {"setup_ret", "aborted"}

\* The spawn failed and startup has ended.
C4_Witness ==
  /\ build = "release"
  /\ osError \in {Some(e) : e \in SpawnErrors}
  /\ server_script # None
  /\ spawnAttempts = 1
  /\ pc = "aborted"

\* C5: when the setup hook has returned Ok in a release build (and until the
\* terminator is first invoked), exactly one LocalServerState is managed, its
\* slot holds the handle of the child just spawned, and that child has been
\* neither killed nor waited on by this program.
C5_RegistersOneHandle ==
  (build = "release" /\ setupResult # None /\ setupResult.tag = "Ok"
     /\ stopCalls = 0) =>
    /\ Len(managed) = 1
    /\ child = Some(Len(children))
    /\ managed[1].slot = child
    /\ killResults = <<>>
    /\ waitResults = <<>>
    /\ ~children[child.val].killSent
    /\ children[child.val].state # "reaped"

\* The setup hook is returning Ok with the child still running.
C5_Witness ==
  /\ build = "release"
  /\ pc = "setup_ret"
  /\ setupResult = Ok("unit")
  /\ managed = <<LocalServerState(Some(1))>>
  /\ children[1].state = "running"

\* Handles of children that are not yet reaped.
Unreaped == {c \in 1..Len(children) : children[c].state # "reaped"}

\* C6: at most one spawn is attempted in a whole run, so at most one child
\* is ever spawned, at most one is unreaped and at most one handle is stored.
C6_AtMostOneChild ==
  /\ spawnAttempts <= 1
  /\ Len(children) <= spawnAttempts
  /\ Cardinality(Unreaped) <= 1
  /\ Len(managed) <= 1

\* The one child was terminated and the run ended without a respawn.
C6_Witness ==
  /\ pc = "done"
  /\ spawnAttempts = 1
  /\ Len(children) = 1
  /\ children[1].state = "reaped"

\* C7: with no LocalServerState managed, a terminator invocation only looks
\* the state up and returns: no step changes the managed state, the children
\* or the kill, wait and lock histories, and the invocation is never at a
\* position past the lookup.
C7_NoStateNoOp ==
  [][managed = <<>> =>
       /\ UNCHANGED progState
       /\ \A t \in Threads : hpc'[t] \in {"idle", "try_state", "stop_ret", "ret"}]_vars

\* The terminator was invoked with nothing managed, and has returned.
C7_Witness ==
  /\ managed = <<>>
  /\ stopReturns >= 1
  /\ lockAcquires = 0

\* C8: when the launcher failed, the application never gets to serve
\* run-loop events: startup ends in the abort and no event is delivered.
C8_StartupAborts ==
  (build = "release" /\ osError # None) =>
    /\ setupResult.tag = "Err"
    /\ pc \in {"setup_ret", "aborted"}
    /\ events = 0
    /\ AllIdle

\* The launcher failed and the application has aborted.
C8_Witness ==
  /\ build = "release"
  /\ osError # None
  /\ setupResult.tag = "Err"
  /\ pc = "aborted"

\* C9: in a debug build no child is ever spawned, no LocalServerState is
\* ever managed, the terminator is never entered, and no step of the
\* run-loop callback (ExitRequested and Exit included) changes the program's
\* state.
C9_DebugNoOp ==
  [][build = "debug" =>
       /\ children = <<>> /\ children' = <<>>
       /\ managed = <<>> /\ managed' = <<>>
       /\ spawnAttempts' = 0
       /\ stopCalls' = 0
       /\ hpc' # hpc => UNCHANGED progState]_vars

\* A debug build has handled ExitRequested and Exit.
C9_Witness ==
  /\ build = "debug"
  /\ pc = "done"
  /\ events >= 2
  /\ logger = "info"

\* C10: whenever a LocalServerState is managed, its slot is None when the
\* terminator returns, whatever kill and wait reported and whether or not a
\* termination was attempted.
C10_SlotClearedOnReturn ==
  \A t \in Threads :
    (hpc[t] = "stop_ret" /\ Len(managed) = 1) => managed[1].slot = None

\* The terminator returns with the slot cleared although kill and wait both
\* reported an error.
C10_Witness ==
  /\ hpc["main"] = "stop_ret"
  /\ killResults = <<"Err">>
  /\ waitResults = <<"Err">>
  /\ managed[1].slot = None

\* Positions of the terminator at which the guard is held.
InCritical == {"as_mut", "kill", "wait", "clear", "unlock"}

\* C11 as stated: a thread that reaches the lock is never blocked there;
\* when the guard cannot be acquired it goes on (skipping the termination).
C11_Original ==
  \A t \in Threads :
    hpc[t] = "lock" => ENABLED stop_local_server_lock(t)

\* C11 amended: when lock() reports a failure (the mutex is poisoned) the
\* terminator skips the termination and returns: no kill, no wait, the slot
\* untouched, no panic.  While another thread holds the guard the call
\* blocks at the lock until the guard is released.
C11_Amended ==
  /\ [](\A t \in Threads :
          hpc[t] = "lock" =>
            (ENABLED stop_local_server_lock(t) <=> managed[1].holder = "none"))
  /\ []((Len(managed) = 1 /\ managed[1].poisoned) =>
          /\ killResults = <<>>
          /\ waitResults = <<>>
          /\ lockAcquires = 0
          /\ managed[1].slot = Some(1)
          /\ \A t \in Threads : hpc[t] \notin InCritical)
  /\ [][\A t \in Threads :
          (hpc[t] = "lock" /\ hpc'[t] # "lock") =>
            IF managed[1].poisoned
              THEN hpc'[t] = "stop_ret" /\ UNCHANGED progState
              ELSE hpc'[t] = "as_mut" /\ managed'[1].holder = t]_vars

\* With a poisoned mutex the terminator has returned without a kill.
C11_Witness ==
  /\ Len(managed) = 1
  /\ managed[1].poisoned
  /\ stopReturns >= 1
  /\ killResults = <<>>

\* C12: when invocations of the terminator interleave on different threads,
\* at most one of them is past the lock at a time (so none observes the slot
\* while another is between kill and clear), the one past the lock holds the
\* guard, kill and wait are each executed at most once on the child, and
\* every invocation returns with the slot None.
C12_NoRace ==
  /\ Cardinality({t \in Threads : hpc[t] \in InCritical}) <= 1
  /\ \A t \in Threads : hpc[t] \in InCritical => managed[1].holder = t
  /\ Len(killResults) <= 1
  /\ Len(waitResults) <= 1
  /\ \A t \in Threads :
       (hpc[t] = "stop_ret" /\ Len(managed) = 1) => managed[1].slot = None

\* Two invocations interleave: one is between kill and clear, the other has
\* reached the lock.
C12_Witness ==
  /\ hpc["aux"] = "wait"
  /\ hpc["main"] = "lock"
  /\ managed[1].holder = "aux"

\* The thread is in Child::wait after a kill that reported an error, and the
\* child is still running.
BlockedAfterFailedKill(t) ==
  /\ hpc[t] = "wait"
  /\ killResults[Len(killResults)] = "Err"
  /\ children[managed[1].slot.val].state = "running"

\* C13 as stated: every invocation of the terminator eventually returns,
\* also when the kill reported an error.
C13_Original ==
  \A t \in Threads : (hpc[t] = "try_state") ~> (hpc[t] = "ret")

\* C13 amended: every invocation of the terminator eventually returns or
\* stays in wait after a kill that reported an error, with the child still
\* running; an invocation whose kill was sent always returns.
C13_Amended ==
  /\ \A t \in Threads :
       (hpc[t] = "try_state") ~> (hpc[t] = "ret" \/ BlockedAfterFailedKill(t))
  /\ \A t \in Threads :
       (hpc[t] = "wait" /\ killResults[Len(killResults)] = "Ok")
         ~> (hpc[t] = "ret")

\* The terminator waits for a running child it has sent the kill signal to.
C13_Witness ==
  /\ hpc["main"] = "wait"
  /\ killResults = <<"Ok">>
  /\ children[1].state = "running"
  /\ children[1].killSent

ExitEvents == {"ExitRequested", "Exit"}

\* Positions of a thread inside stop_local_server.
InStop == {"try_state", "lock", "stop_ret"} \cup InCritical

\* C14: the spawn and the registration are complete before the terminator
\* is ever invoked (until the setup hook has returned no event is delivered
\* and no callback runs; whenever a callback runs in a release build, the
\* spawned child is registered), the terminator runs only for an exit event,
\* and a kill is issued only while an exit event is being handled.
C14_Ordering ==
  /\ [](pc \in {"start", "setup", "resolved", "spawned", "setup_ret", "aborted"} =>
          /\ AllIdle
          /\ events = 0
          /\ stopCalls = 0
          /\ killResults = <<>>)
  /\ []((build = "release" /\ ~AllIdle) =>
          /\ setupResult = Ok("unit")
          /\ Len(children) = 1
          /\ Len(managed) = 1)
  /\ [](\A t \in Threads : hpc[t] \in InStop => hev[t] \in ExitEvents)
  /\ [][killResults' # killResults =>
          \E t \in Threads : hpc[t] = "kill" /\ hev[t] \in ExitEvents]_vars

\* The kill is being issued while ExitRequested is handled, the child
\* registered.
C14_Witness ==
  /\ pc = "running"
  /\ hpc["main"] = "kill"
  /\ hev["main"] = "ExitRequested"
  /\ managed[1].slot = Some(1)

\* The handle slot as the program sees it.
Slot == IF Len(managed) = 0 THEN [tag |-> "Unmanaged"] ELSE managed[1].slot

\* C15: the slot changes only by the install in the setup hook (to the
\* handle of the spawned child) and by the terminator's clear while an exit
\* event is handled (from Some to None); once None it stays None;
\* spawn_local_server and the handling of any other event leave it as it is.
C15_SlotFrame ==
  [][/\ Slot' # Slot =>
          \/ /\ Slot.tag = "Unmanaged"
             /\ pc = "spawned"
             /\ Slot' = Some(Len(children))
          \/ /\ Slot.tag = "Some"
             /\ Slot' = None
             /\ \E t \in Threads : hpc[t] = "clear" /\ hev[t] \in ExitEvents
     /\ Slot = None => Slot' = None
     /\ pc \in {"setup", "resolved"} => Slot' = Slot
     /\ (\E t \in Threads : hev'[t] = "Other" /\ hpc'[t] # hpc[t]) =>
          Slot' = Slot]_vars

\* After the slot was cleared another event is handled, the slot still None.
C15_Witness ==
  /\ Slot = None
  /\ hev["main"] = "Other"
  /\ hpc["main"] = "ret"
  /\ stopReturns >= 1

\* C16: in every reachable state of run() the mutex is not poisoned and is
\* held only by a thread that is inside stop_local_server between the lock
\* and the end of the guard's block; a thread at the lock can always take
\* it, and every invocation that found the state has taken the lock (the
\* lock-failure branch is never taken).
C16_MutexFree ==
  Len(managed) = 1 =>
    /\ ~managed[1].poisoned
    /\ \A t \in Threads : hpc[t] \in InCritical <=> managed[1].holder = t
    /\ \A t \in Threads :
         hpc[t] = "lock" =>
           managed[1].holder = "none" /\ ENABLED stop_local_server_lock(t)
    /\ lockAcquires =
         stopReturns +
           (IF \E t \in Threads : hpc[t] \in InCritical \cup {"stop_ret"}
              THEN 1 ELSE 0)

\* A second invocation has taken the lock again.
C16_Witness ==
  /\ lockAcquires = 2
  /\ hpc["main"] = "as_mut"
  /\ managed[1].holder = "main"
  /\ stopReturns = 1

TypeOK ==
  /\ build \in Builds
  /\ pc \in {"start", "setup", "resolved", "spawned", "setup_ret",
             "running", "done", "aborted", "harness"}
  /\ Len(managed) <= 1
  /\ events \in 0..MaxEvents

====
